---- MODULE Spec2Model ----
(***************************************************************************)
(* The todo.txt engine of the Electron main process (src/index.js): the    *)
(* IPC handlers todo:add, todo:list-urgent and todo:complete acting on the *)
(* task file.  JavaScript strings are sequences of one-character strings,  *)
(* so that trim, split, the regular expressions and the string comparisons *)
(* are computed character by character.  A JavaScript null / undefined /   *)
(* "" string value is the empty sequence where the code only tests its     *)
(* truthiness.                                                             *)
(*                                                                         *)
(* Specifications:                                                         *)
(*   Spec         the three handlers, the clock and external edits         *)
(*   SpecRank     todo:list-urgent on longer files                         *)
(*   SpecParse    todo:list-urgent on lines that try the parser            *)
(*   SpecCompose  todo:add with every configuration and template          *)
(*   SpecTriage   list, show, complete a shown item, list again            *)
(*   SpecFaults   the handlers with malformed payloads and failing storage *)
(*   SpecLoop     the handlers as a read step and a write-and-return step  *)
(*   SpecWindow   the main window: blur, focus, the shortcuts, the timers  *)
(***************************************************************************)
EXTENDS Integers, Sequences, FiniteSets, TLC

\* ---------------------------------------------------------------- bounds

\* Lines of the task file the engine starts from; todo:add is exercised while
\* the file, less its trailing white space, has at most this many lines.
MaxLines == 1

\* Lines of the task file the ranking is checked on.
MaxRankLines == 3

\* Twelve-hour steps the clock takes after the first instant.
MaxTicks == 1

\* Lines of the task file the triage view is checked on.
MaxTriageLines == 2

\* Lines of the task file the parser is checked on.
MaxParseLines == 1

\* White-space characters behind the last task line of the file todo:add
\* is checked on.
MaxTail == 2

\* How many blur-hide timers are set in one run, and how many once('focus')
\* listeners wait at a time
MaxTimers == 3

MaxListeners == 2

\* ------------------------------------------------------------ characters

Upper == {"A", "B", "C", "D", "E", "F", "G", "H", "I", "J", "K", "L", "M",
          "N", "O", "P", "Q", "R", "S", "T", "U", "V", "W", "X", "Y", "Z"}

Digit == {"0", "1", "2", "3", "4", "5", "6", "7", "8", "9"}

\* The characters \s and trim() treat as white space (those the model uses).
WhiteSpace == {" ", "\t", "\r", "\n"}

\* The characters of the model in ascending UTF-16 code unit order.
CodeOrder ==
  << "\t", "\n", "\r", " ", "(", ")", "+", "-",
     "0", "1", "2", "3", "4", "5", "6", "7", "8", "9", ":", "@",
     "A", "B", "C", "D", "E", "F", "G", "H", "I", "J", "K", "L", "M",
     "N", "O", "P", "Q", "R", "S", "T", "U", "V", "W", "X", "Y", "Z",
     "a", "b", "c", "d", "e", "f", "g", "h", "i", "j", "k", "l", "m",
     "n", "o", "p", "q", "r", "s", "t", "u", "v", "w", "x", "y", "z" >>

codeUnit(c) == CHOOSE i \in 1..Len(CodeOrder) : CodeOrder[i] = c

SetMin(S) == CHOOSE m \in S : \A k \in S : m <= k

\* ------------------------------------------------- String.prototype.*

\* The last position up to i that holds no white space (0 if none)
RECURSIVE lastNonSpace(_, _)
lastNonSpace(s, i) ==
  IF i = 0 \/ s[i] \notin WhiteSpace THEN i ELSE lastNonSpace(s, i - 1)

\* The first position from i on that holds no white space (Len(s) + 1 if none)
RECURSIVE firstNonSpace(_, _)
firstNonSpace(s, i) ==
  IF i > Len(s) \/ s[i] \notin WhiteSpace THEN i ELSE firstNonSpace(s, i + 1)

\* s.trimEnd()
trimEnd(s) == SubSeq(s, 1, lastNonSpace(s, Len(s)))

\* s.trim()
trim(s) == SubSeq(s, firstNonSpace(s, 1), lastNonSpace(s, Len(s)))

\* s.startsWith(p)
startsWith(s, p) == Len(s) >= Len(p) /\ SubSeq(s, 1, Len(p)) = p

\* s.split('\n'): always at least one element
RECURSIVE split(_)
split(s) ==
  LET nl == {i \in 1..Len(s) : s[i] = "\n"}
  IN  IF nl = {} THEN <<s>>
      ELSE <<SubSeq(s, 1, SetMin(nl) - 1)>>
             \o split(SubSeq(s, SetMin(nl) + 1, Len(s)))

\* lines.join('\n')
RECURSIVE join(_)
join(lines) ==
  IF Len(lines) = 0 THEN <<>>
  ELSE IF Len(lines) = 1 THEN lines[1]
  ELSE lines[1] \o <<"\n">> \o join(Tail(lines))

\* a < b on strings: by UTF-16 code units, a proper prefix first
strLess(a, b) ==
  LET n    == IF Len(a) < Len(b) THEN Len(a) ELSE Len(b)
      diff == {i \in 1..n : a[i] # b[i]}
  IN  IF diff = {} THEN Len(a) < Len(b)
      ELSE codeUnit(a[SetMin(diff)]) < codeUnit(b[SetMin(diff)])

\* a.localeCompare(b), on the digits and hyphens of two dates: -1, 0 or 1
localeCompare(a, b) ==
  IF a = b THEN 0 ELSE IF strLess(a, b) THEN -1 ELSE 1

\* ------------------------------------------------ the regular expressions

\* The end of the run of \s characters that starts at position i
spaceRunEnd(s, i) == firstNonSpace(s, i) - 1

\* /^\(([A-Z])\)\s+/ : the length of the match, 0 when the line does not match
priorityMatch(line) ==
  IF /\ Len(line) >= 4
     /\ line[1] = "("
     /\ line[2] \in Upper
     /\ line[3] = ")"
     /\ line[4] \in WhiteSpace
  THEN spaceRunEnd(line, 4)
  ELSE 0

\* \d{4}-\d{2}-\d{2} matches at position i
dateAt(s, i) ==
  /\ i >= 1
  /\ i + 9 <= Len(s)
  /\ \A k \in {0, 1, 2, 3, 5, 6, 8, 9} : s[i + k] \in Digit
  /\ s[i + 4] = "-"
  /\ s[i + 7] = "-"

\* /due:(\d{4}-\d{2}-\d{2})/ : the first match's group, <<>> when none
dueMatch(line) ==
  LET at == {i \in 1..Len(line) :
               /\ i + 3 <= Len(line)
               /\ SubSeq(line, i, i + 3) = <<"d", "u", "e", ":">>
               /\ dateAt(line, i + 4)}
  IN  IF at = {} THEN <<>>
      ELSE SubSeq(line, SetMin(at) + 4, SetMin(at) + 13)

\* Mutant of withoutPriority: the priority is left on the line.
withoutPriority_Kept(line) == line

\* line.replace(/^\([A-Z]\)\s+/, '')
withoutPriority(line) == SubSeq(line, priorityMatch(line) + 1, Len(line))

\* Mutant of withoutCreationDate: the creation date is left in front.
withoutCreationDate_Kept(s) == s

\* s.replace(/^\d{4}-\d{2}-\d{2}\s+/, '')
withoutCreationDate(s) ==
  IF dateAt(s, 1) /\ Len(s) >= 11 /\ s[11] \in WhiteSpace
  THEN SubSeq(s, spaceRunEnd(s, 11) + 1, Len(s))
  ELSE s

\* ------------------------------------------------------------- the clock

\* Instants are whole hours since 2024-01-01T00:00Z; days are counted from
\* 2024-01-01 and stay inside 2024.
monthLength == <<31, 29, 31, 30, 31, 30, 31, 31, 30, 31, 30, 31>>

RECURSIVE monthAndDay(_, _)
monthAndDay(d, m) ==
  IF d < monthLength[m] THEN <<m, d + 1>>
  ELSE monthAndDay(d - monthLength[m], m + 1)

digitChar == <<"0", "1", "2", "3", "4", "5", "6", "7", "8", "9">>

twoDigits(n) == <<digitChar[(n \div 10) + 1], digitChar[(n % 10) + 1]>>

\* The sv locale's date of a day number: YYYY-MM-DD
formatDate(day) ==
  LET md == monthAndDay(day, 1)
  IN  <<"2", "0", "2", "4", "-">> \o twoDigits(md[1]) \o <<"-">> \o twoDigits(md[2])

\* date.toLocaleDateString('sv', { timeZone: 'Asia/Tokyo' }): UTC+9, no DST
toLocaleDateString(t) == formatDate((t + 9) \div 24)

\* new Date().toISOString().slice(0, 10), the date of the older main file
\* (src/unnamed/part_000): the UTC date
toISODate(t) == formatDate(t \div 24)

\* The first instant of the model: 2024-03-05T15:00Z, which is
\* 2024-03-06 00:00 in Asia/Tokyo.
FirstInstant == (31 + 29 + 4) * 24 + 15

\* What setDate(getDate() + 7) adds to the instant besides seven days: the
\* date arithmetic is done in the host's local time zone, whose UTC offset may
\* change by an hour inside those seven days (a daylight-saving transition).
HostOffsetChange == {-1, 0, 1}

\* ------------------------------------------------------ the configuration

\* DEFAULT_CONFIG.templates (names left out: the handlers never read them)
DEFAULT_CONFIG ==
  [templates |->
     << [projects |-> << <<"w", "o", "r", "k">> >>,
         contexts |-> <<>>,
         priority |-> <<>>],
        [projects |-> << <<"w", "o", "r", "k">> >>,
         contexts |-> << <<"m", "e", "e", "t", "i", "n", "g">> >>,
         priority |-> <<"A">>],
        [projects |-> << <<"p", "e", "r", "s", "o", "n", "a", "l">> >>,
         contexts |-> <<>>,
         priority |-> <<>>] >>]

\* What config.json holds when readConfig() reads it: nothing that parses, an
\* object whose templates are not an array, or an object with templates of its
\* own:
\*   0  no projects, no contexts, priority B   (an empty tag string)
\*   1  projects p, q and contexts c, d        (tags in template order)
NoConfigFile == [parses |-> FALSE, isArray |-> FALSE, templates |-> <<>>]

ConfigFiles ==
  { NoConfigFile,
    [parses |-> TRUE, isArray |-> FALSE, templates |-> <<>>],
    [parses |-> TRUE, isArray |-> TRUE,
     templates |->
       << [projects |-> <<>>, contexts |-> <<>>, priority |-> <<"B">>],
          [projects |-> << <<"p">>, <<"q">> >>,
           contexts |-> << <<"c">>, <<"d">> >>,
           priority |-> <<>>] >>] }

\* readConfig(): the stored object spread over DEFAULT_CONFIG, templates that
\* are not an array replaced by [], and DEFAULT_CONFIG when the read or the
\* parse throws
readConfig(stored) ==
  IF ~stored.parses THEN DEFAULT_CONFIG
  ELSE IF ~stored.isArray THEN [templates |-> <<>>]
  ELSE [templates |-> stored.templates]

\* ----------------------------------------------------------------- state

VARIABLES
  file,       \* the task file: [exists, content]; content is its text
  now,        \* the clock: whole hours since 2024-01-01T00:00Z
  resp,       \* what the last handler returned
  last,       \* the last call: its channel, request, the file and date it saw
  doneSince,  \* line indexes todo:complete marked since the last other write
  running,    \* the handlers that have read the task file and not yet returned
  shown,      \* the urgent list the renderer last received and shows
  win         \* the windows: visibility, focus, panel, blur-hide timers

vars == <<file, now, resp, last, doneSince, running, shown, win>>

\* The error messages of todo:complete (index.js 327, 331, 335), in ASCII.
ErrFileNotFound == "file not found"

ErrLineNotFound == "line not found"

ErrAlreadyCompleted == "already completed"

\* err.message of the TypeError lines[lineIndex].trim() throws on undefined
ErrTypeError == "Cannot read properties of undefined (reading 'trim')"

NoError == ""

\* A handler's return value; todos is <<>> where the handler returns none.
Result(ok, error, todos) == [ok |-> ok, error |-> error, todos |-> todos]

\* fs.existsSync(filePath) ? fs.readFileSync(filePath, 'utf8') : ''
contentOf(f) == IF f.exists THEN f.content ELSE <<>>

\* ------------------------------------------------------------- todo:add

\* (templateIndex >= 0 && cfg.templates[templateIndex]) || null
resolveTemplate(cfg, templateIndex) ==
  IF templateIndex >= 0 /\ templateIndex < Len(cfg.templates)
  THEN [resolved |-> TRUE, tmpl |-> cfg.templates[templateIndex + 1]]
  ELSE [resolved |-> FALSE,
        tmpl |-> [projects |-> <<>>, contexts |-> <<>>, priority |-> <<>>]]

\* strs.map(s => prefix + s)
RECURSIVE mapPrefix(_, _)
mapPrefix(prefix, strs) ==
  IF strs = <<>> THEN <<>>
  ELSE <<(<<prefix>> \o Head(strs))>> \o mapPrefix(prefix, Tail(strs))

\* strs.join(' ')
RECURSIVE joinSpace(_)
joinSpace(strs) ==
  IF Len(strs) = 0 THEN <<>>
  ELSE IF Len(strs) = 1 THEN strs[1]
  ELSE strs[1] \o <<" ">> \o joinSpace(Tail(strs))

\* Mutant of composeDescription: the due token is put before the tags.
composeDescription_DueFirst(text, dueToday, t, today) ==
  LET tags == joinSpace(mapPrefix("+", t.tmpl.projects)
                          \o mapPrefix("@", t.tmpl.contexts))
      d1   == trim(text)
      d2   == IF dueToday THEN d1 \o <<" ", "d", "u", "e", ":">> \o today ELSE d1
  IN  IF t.resolved /\ tags # <<>> THEN d2 \o <<" ">> \o tags ELSE d2

\* The description todo:add composes
composeDescription(text, dueToday, t, today) ==
  LET tags == joinSpace(mapPrefix("+", t.tmpl.projects)
                          \o mapPrefix("@", t.tmpl.contexts))
      d1   == trim(text)
      d2   == IF t.resolved /\ tags # <<>> THEN d1 \o <<" ">> \o tags ELSE d1
  IN  IF dueToday THEN d2 \o <<" ", "d", "u", "e", ":">> \o today ELSE d2

\* The record todo:add hands to the formatter
composeTodo(cfg, text, priority, dueToday, templateIndex, today) ==
  LET t == resolveTemplate(cfg, templateIndex)
  IN  [completed    |-> FALSE,
       priority     |-> priority,
       creationDate |-> today,
       description  |-> composeDescription(text, dueToday, t, today),
       projects     |-> t.tmpl.projects,
       contexts     |-> t.tmpl.contexts,
       due          |-> IF dueToday THEN today ELSE <<>>]

\* The external formatter's line for a record: "(P) " when it has a
\* priority, the creation date, the description.
serializeTodo(todo) ==
  (IF todo.priority # <<>> THEN <<"(">> \o todo.priority \o <<")", " ">> ELSE <<>>)
    \o todo.creationDate \o <<" ">> \o todo.description

\* appendTaskToFile(existing, todo) of @wagomu/todotxt-parser: the record's
\* line appended to the existing text, on a line of its own.
appendTaskToFile(existing, todo) ==
  IF existing = <<>> THEN serializeTodo(todo)
  ELSE existing \o <<"\n">> \o serializeTodo(todo)

\* Mutant of addedContent: no newline is put behind the formatter's text.
addedContent_NoNewline(f, todo) ==
  appendTaskToFile(trimEnd(contentOf(f)), todo)

\* What todo:add writes
addedContent(f, todo) ==
  appendTaskToFile(trimEnd(contentOf(f)), todo) \o <<"\n">>

\* ----------------------------------------------------- todo:list-urgent

\* Mutant of parseLine: a task due today counts as overdue.
parseLine_NotStrict(line, lineIndex, today) ==
  LET due == dueMatch(line)
  IN  [priority  |-> IF priorityMatch(line) > 0 THEN <<line[2]>> ELSE <<>>,
       due       |-> due,
       desc      |-> trim(withoutCreationDate(withoutPriority(line))),
       isOverdue |-> IF due # <<>> THEN ~strLess(today, due) ELSE FALSE,
       lineIndex |-> lineIndex]

\* One line of the file parsed into an item (index.js 294-304)
parseLine(line, lineIndex, today) ==
  LET due == dueMatch(line)
  IN  [priority  |-> IF priorityMatch(line) > 0 THEN <<line[2]>> ELSE <<>>,
       due       |-> due,
       desc      |-> trim(withoutCreationDate(withoutPriority(line))),
       isOverdue |-> IF due # <<>> THEN strLess(due, today) ELSE FALSE,
       lineIndex |-> lineIndex]

\* .filter(({ trimmed }) => trimmed && !trimmed.startsWith('x '))
isActive(trimmed) == trimmed # <<>> /\ ~startsWith(trimmed, <<"x", " ">>)

\* .filter(t => t.priority === 'A' || (t.due && t.due <= thresholdStr))
isUrgent(t, thresholdStr) ==
  \/ t.priority = <<"A">>
  \/ (t.due # <<>> /\ ~strLess(thresholdStr, t.due))

\* Mutant of compare: priority A is tested before overdue.
compare_PriorityFirst(a, b) ==
  IF a.priority = <<"A">> /\ b.priority # <<"A">> THEN -1
  ELSE IF a.priority # <<"A">> /\ b.priority = <<"A">> THEN 1
  ELSE IF a.isOverdue /\ ~b.isOverdue THEN -1
  ELSE IF ~a.isOverdue /\ b.isOverdue THEN 1
  ELSE IF a.due # <<>> /\ b.due # <<>> THEN localeCompare(a.due, b.due)
  ELSE IF a.due # <<>> THEN -1
  ELSE IF b.due # <<>> THEN 1
  ELSE 0

\* The comparator of .sort (index.js 306-315)
compare(a, b) ==
  IF a.isOverdue /\ ~b.isOverdue THEN -1
  ELSE IF ~a.isOverdue /\ b.isOverdue THEN 1
  ELSE IF a.priority = <<"A">> /\ b.priority # <<"A">> THEN -1
  ELSE IF a.priority # <<"A">> /\ b.priority = <<"A">> THEN 1
  ELSE IF a.due # <<>> /\ b.due # <<>> THEN localeCompare(a.due, b.due)
  ELSE IF a.due # <<>> THEN -1
  ELSE IF b.due # <<>> THEN 1
  ELSE 0

\* x put into the sorted sequence s behind every element it does not precede
insertSorted(s, x) ==
  LET before == {i \in 1..Len(s) : compare(x, s[i]) < 0}
      k      == IF before = {} THEN Len(s) + 1 ELSE SetMin(before)
  IN  SubSeq(s, 1, k - 1) \o <<x>> \o SubSeq(s, k, Len(s))

\* Array.prototype.sort with the comparator: a stable sort
RECURSIVE sort(_)
sort(s) ==
  IF s = <<>> THEN <<>>
  ELSE insertSorted(sort(SubSeq(s, 1, Len(s) - 1)), s[Len(s)])

\* new Date() moved by setDate(getDate() + 7), as a Tokyo date
thresholdStrOf(t, offsetChange) == toLocaleDateString(t + 7 * 24 + offsetChange)

\* Mutant of urgentTodos: the lines are numbered after the blank and the
\* completed ones have been filtered out.
urgentTodos_IndexAfterFilter(content, today, thresholdStr) ==
  LET lines   == split(content)
      trimmed == [i \in 1..Len(lines) |-> trim(lines[i])]
      active  == SelectSeq(trimmed, isActive)
      parsed  == [i \in 1..Len(active) |-> parseLine(active[i], i - 1, today)]
      Urgent(t) == isUrgent(t, thresholdStr)
  IN  sort(SelectSeq(parsed, Urgent))

\* The todos todo:list-urgent returns for a file's content
urgentTodos(content, today, thresholdStr) ==
  LET lines   == split(content)
      indexed == [i \in 1..Len(lines) |->
                    [lineIndex |-> i - 1, trimmed |-> trim(lines[i])]]
      Active(l) == isActive(l.trimmed)
      active  == SelectSeq(indexed, Active)
      parsed  == [i \in 1..Len(active) |->
                    parseLine(active[i].trimmed, active[i].lineIndex, today)]
      Urgent(t) == isUrgent(t, thresholdStr)
  IN  sort(SelectSeq(parsed, Urgent))

\* ------------------------------------------------------- todo:complete

\* Mutant of completedLine: the "x " marker is left out.
completedLine_NoMarker(line, today) == today \o <<" ">> \o withoutPriority(line)

\* `x ${today} ${withoutPriority}` for the trimmed target line
completedLine(line, today) ==
  <<"x", " ">> \o today \o <<" ">> \o withoutPriority(line)

\* Mutant of isDoneOrBlank: only a blank line is refused.
isDoneOrBlank_BlankOnly(line) == line = <<>>

\* if (!line || line.startsWith('x '))
isDoneOrBlank(line) == line = <<>> \/ startsWith(line, <<"x", " ">>)

\* Mutant of outOfRange: the upper bound is off by one.
outOfRange_OffByOne(lineIndex, lines) == lineIndex < 0 \/ lineIndex > Len(lines)

\* if (lineIndex < 0 || lineIndex >= lines.length)
outOfRange(lineIndex, lines) == lineIndex < 0 \/ lineIndex >= Len(lines)

\* Mutant of completedContent: a newline is put behind the joined lines, as
\* todo:add does.
completedContent_TrailingNewline(lines, lineIndex, today) ==
  join([lines EXCEPT ![lineIndex + 1] = completedLine(trim(lines[lineIndex + 1]), today)])
    \o <<"\n">>

\* lines with lines[lineIndex] replaced, joined by '\n'
completedContent(lines, lineIndex, today) ==
  join([lines EXCEPT ![lineIndex + 1] = completedLine(trim(lines[lineIndex + 1]), today)])

\* ------------------------------------------------------------ the inputs

\* Lines a task file may hold:
\*   the empty line and a blank line;
\*   "x 2024-03-01 c"                       completed;
\*   "(A) a"                                priority A, no due date;
\*   " (B)  2024-03-01 b due:2024-03-05\r"  a CRLF line with leading white
\*                                          space, a priority followed by two
\*                                          spaces, a creation date and a due
\*                                          date before the first day;
\*   "n due:2024-03-06"                     due on the first day;
\*   "t due:2024-03-13"                     due seven days after the first day;
\*   "(A) e due:2024-03-05"                 priority A and due before it;
\*   "(C)d due:2024-03-20"                  a malformed priority, due far ahead.
SampleLines ==
  { <<>>,
    <<" ">>,
    <<"x", " ", "2", "0", "2", "4", "-", "0", "3", "-", "0", "1", " ", "c">>,
    <<"(", "A", ")", " ", "a">>,
    <<" ", "(", "B", ")", " ", " ", "2", "0", "2", "4", "-", "0", "3", "-", "0", "1", " ", "b", " ", "d", "u", "e", ":", "2", "0", "2", "4", "-", "0", "3", "-", "0", "5", "\r">>,
    <<"n", " ", "d", "u", "e", ":", "2", "0", "2", "4", "-", "0", "3", "-", "0", "6">>,
    <<"t", " ", "d", "u", "e", ":", "2", "0", "2", "4", "-", "0", "3", "-", "1", "3">>,
    <<"(", "A", ")", " ", "e", " ", "d", "u", "e", ":", "2", "0", "2", "4", "-", "0", "3", "-", "0", "5">>,
    <<"(", "C", ")", "d", " ", "d", "u", "e", ":", "2", "0", "2", "4", "-", "0", "3", "-", "2", "0">> }

\* The task file is absent, or holds up to n sample lines joined by '\n',
\* with or without a newline at its end.
FilesOf(n) ==
  {[exists |-> FALSE, content |-> <<>>]}
    \cup {[exists |-> TRUE, content |-> join(ls) \o end] :
            ls \in UNION {[1..k -> SampleLines] : k \in 0..n},
            end \in {<<>>, <<"\n">>}}

\* Lines the parser is checked on, all but the last urgent on the first day:
\*   "(A)\t2024-03-01\tz"                   a tab behind the priority and behind the creation date
\*   " (A) k \r"                            white space around the line
\*   "(B)  2024-03-01  b  due:2024-03-05"   runs of two spaces
\*   "q due:2024-03-07 due:2024-03-01"      two due tokens
\*   "(a) r due:2024-03-06"                 a lower-case letter in the parentheses
\*   "(AB) w due:2024-03-06"                two letters in the parentheses
\*   "2024-03-01 (A) u due:2024-03-06"      the priority behind the creation date
\*   "due:2024-03-06"                       nothing but a due token
\*   "(A) v due:2024-3-6"                   a due date of the wrong shape
\*   "(A) 2024-03-01"                       a creation date with nothing behind it
\*   "(A) (B) y"                            two priorities
\*   "(A) 2024-03-01 2024-03-02 m"          two dates
\*   "xylo undue:2024-03-06"                x without a space, due: inside a word
\*   "(B)\tf due:2024-04-01"                a tab behind the priority, due far ahead
ParserLines ==
  { <<"(", "A", ")", "\t", "2", "0", "2", "4", "-", "0", "3", "-", "0", "1", "\t", "z">>,
    <<" ", "(", "A", ")", " ", "k", " ", "\r">>,
    <<"(", "B", ")", " ", " ", "2", "0", "2", "4", "-", "0", "3", "-", "0", "1", " ", " ", "b", " ", " ", "d", "u", "e", ":", "2", "0", "2", "4", "-", "0", "3", "-", "0", "5">>,
    <<"q", " ", "d", "u", "e", ":", "2", "0", "2", "4", "-", "0", "3", "-", "0", "7", " ", "d", "u", "e", ":", "2", "0", "2", "4", "-", "0", "3", "-", "0", "1">>,
    <<"(", "a", ")", " ", "r", " ", "d", "u", "e", ":", "2", "0", "2", "4", "-", "0", "3", "-", "0", "6">>,
    <<"(", "A", "B", ")", " ", "w", " ", "d", "u", "e", ":", "2", "0", "2", "4", "-", "0", "3", "-", "0", "6">>,
    <<"2", "0", "2", "4", "-", "0", "3", "-", "0", "1", " ", "(", "A", ")", " ", "u", " ", "d", "u", "e", ":", "2", "0", "2", "4", "-", "0", "3", "-", "0", "6">>,
    <<"d", "u", "e", ":", "2", "0", "2", "4", "-", "0", "3", "-", "0", "6">>,
    <<"(", "A", ")", " ", "v", " ", "d", "u", "e", ":", "2", "0", "2", "4", "-", "3", "-", "6">>,
    <<"(", "A", ")", " ", "2", "0", "2", "4", "-", "0", "3", "-", "0", "1">>,
    <<"(", "A", ")", " ", "(", "B", ")", " ", "y">>,
    <<"(", "A", ")", " ", "2", "0", "2", "4", "-", "0", "3", "-", "0", "1", " ", "2", "0", "2", "4", "-", "0", "3", "-", "0", "2", " ", "m">>,
    <<"x", "y", "l", "o", " ", "u", "n", "d", "u", "e", ":", "2", "0", "2", "4", "-", "0", "3", "-", "0", "6">>,
    <<"(", "B", ")", "\t", "f", " ", "d", "u", "e", ":", "2", "0", "2", "4", "-", "0", "4", "-", "0", "1">> }

\* The task file holds one to n parser lines, with or without a newline at
\* its end.
ParseFiles(n) ==
  {[exists |-> TRUE, content |-> join(ls) \o end] :
     ls \in UNION {[1..k -> ParserLines] : k \in 1..n},
     end \in {<<>>, <<"\n">>}}

\* The lines of the files the triage view starts from: a blank line, a
\* completed line, a priority-A line, the CRLF line that is overdue, and the
\* line due seven days after the first day.
TriageLines ==
  { <<" ">>,
    <<"x", " ", "2", "0", "2", "4", "-", "0", "3", "-", "0", "1", " ", "c">>,
    <<"(", "A", ")", " ", "a">>,
    <<" ", "(", "B", ")", " ", " ", "2", "0", "2", "4", "-", "0", "3", "-", "0", "1", " ", "b", " ", "d", "u", "e", ":", "2", "0", "2", "4", "-", "0", "3", "-", "0", "5", "\r">>,
    <<"t", " ", "d", "u", "e", ":", "2", "0", "2", "4", "-", "0", "3", "-", "1", "3">> }

\* The task file holds one to n triage lines, with or without a newline at
\* its end.
TriageFiles(n) ==
  {[exists |-> TRUE, content |-> join(ls) \o end] :
     ls \in UNION {[1..k -> TriageLines] : k \in 1..n},
     end \in {<<>>, <<"\n">>}}

\* The text typed into the form
Texts == { <<" ", "b", "\t">> }

\* The texts composition is checked on: with white space around it, with
\* white space inside it, and blank
ComposeTexts == { <<" ", "b", "\t">>, <<"b", " ", " ", "k">>, <<" ">> }

\* The priority picked in the form: none or a letter
Priorities == { <<>>, <<"A">> }

\* The template picked where the whole engine runs: none (-1) and an index
\* past the end; the templates that resolve are picked in SpecCompose.
TemplateIndexes == {-1, 3}

\* The template indexes composition is checked on
ComposeTemplateIndexes == {-1, 0, 1, 2, 3}

\* What follows the last task line of the file todo:add reads
TailChars == {"\n", " ", "\r"}

\* The files composition starts from: absent, or nothing or one task line
\* followed by up to n characters of white space
ComposeFiles(n) ==
  {[exists |-> FALSE, content |-> <<>>]}
    \cup {[exists |-> TRUE, content |-> body \o tail] :
            body \in {<<>>, <<"(", "A", ")", " ", "a">>},
            tail \in UNION {[1..k -> TailChars] : k \in 0..n}}

\* The renderer has received no urgent list yet.
NothingShown == [todos |-> <<>>, thresholdAt |-> 0]

NoCall == [op |-> "none", req |-> <<>>, pre |-> [exists |-> FALSE, content |-> <<>>],
           today |-> <<>>, done |-> {}]

\* The windows after app.whenReady (index.js 124-128, 130-152, 368-374): the
\* main window is created hidden (show: false, alwaysOnTop: true), no settings
\* window, no timer (blurHideTimer = null is 0; timers are numbered from 1 in
\* the order setTimeout made them), the form panel.  timers holds the timers
\* that are set and have neither fired nor been cleared, focusOnce the events
\* the once('focus') listeners will send, sent the last message sent to the
\* renderer.  shownAt is the number the next timer had when a toggle last
\* showed the window (0: never), hiddenBy the timer whose callback hid the
\* window in the last step (0: none).
WindowsCreated ==
  [visible |-> FALSE, focused |-> FALSE, alwaysOnTop |-> TRUE,
   isSettingsOpen |-> FALSE, currentPanel |-> "form",
   blurHideTimer |-> 0, timers |-> {}, nextTimer |-> 1,
   focusOnce |-> <<>>, sent |-> "none",
   shownAt |-> 0, hiddenBy |-> 0]

Init ==
  /\ file \in FilesOf(MaxLines)
  /\ now = FirstInstant
  /\ resp = Result(TRUE, NoError, <<>>)
  /\ last = NoCall
  /\ doneSince = {}
  /\ running = {}
  /\ shown = NothingShown
  /\ win = WindowsCreated

\* ----------------------------------------------------------- the handlers

\* No call is in flight: the renderer has received the result of its last
\* invoke.  A handler runs to completion before the next request is taken.
Idle == last.op = "none"

\* ipcMain.handle('todo:add', ...)
TodoAdd(stored, text, priority, dueToday, templateIndex) ==
  LET today == toLocaleDateString(now)
      todo  == composeTodo(readConfig(stored), text, priority, dueToday,
                           templateIndex, today)
  IN  /\ Idle
      /\ Len(split(trimEnd(contentOf(file)))) <= MaxLines
      /\ file' = [exists |-> TRUE, content |-> addedContent(file, todo)]
      /\ resp' = Result(TRUE, NoError, <<>>)
      /\ last' = [op |-> "todo:add",
                  req |-> [stored |-> stored, text |-> text, priority |-> priority,
                           dueToday |-> dueToday, templateIndex |-> templateIndex],
                  pre |-> file, today |-> today, done |-> doneSince,
                  todo |-> todo]
      /\ doneSince' = {}
      /\ UNCHANGED <<now, running, shown, win>>

\* Mutant of listUrgentResult: a missing task file is an error, as it is for
\* todo:complete.
listUrgentResult_NotFound(f, t, offsetChange) ==
  IF ~f.exists THEN Result(FALSE, ErrFileNotFound, <<>>)
  ELSE Result(TRUE, NoError,
              urgentTodos(f.content, toLocaleDateString(t),
                          thresholdStrOf(t, offsetChange)))

\* What todo:list-urgent returns
listUrgentResult(f, t, offsetChange) ==
  IF ~f.exists THEN Result(TRUE, NoError, <<>>)
  ELSE Result(TRUE, NoError,
              urgentTodos(f.content, toLocaleDateString(t),
                          thresholdStrOf(t, offsetChange)))

\* Mutant of listUrgentFile: a missing task file is created empty.
listUrgentFile_Creates(f) == [exists |-> TRUE, content |-> contentOf(f)]

\* The task file after todo:list-urgent: the handler only reads it
listUrgentFile(f) == f

\* ipcMain.handle('todo:list-urgent', ...)
TodoListUrgent(offsetChange) ==
  /\ Idle
  /\ resp' = listUrgentResult(file, now, offsetChange)
  /\ last' = [op |-> "todo:list-urgent", req |-> [offsetChange |-> offsetChange],
              pre |-> file, today |-> toLocaleDateString(now), done |-> doneSince]
  /\ file' = listUrgentFile(file)
  /\ UNCHANGED <<now, doneSince, running, shown, win>>

\* Mutant of completeResult: an index completed before is refused from what
\* the engine remembers of its earlier calls, not from the file as re-read.
completeResult_Cached(f, hasIndex, lineIndex) ==
  LET lines == split(f.content)
  IN  IF ~f.exists THEN Result(FALSE, ErrFileNotFound, <<>>)
      ELSE IF hasIndex /\ outOfRange(lineIndex, lines)
           THEN Result(FALSE, ErrLineNotFound, <<>>)
      ELSE IF ~hasIndex \/ lineIndex + 1 \notin 1..Len(lines)
           THEN Result(FALSE, ErrTypeError, <<>>)
      ELSE IF lineIndex \in doneSince \/ trim(lines[lineIndex + 1]) = <<>>
           THEN Result(FALSE, ErrAlreadyCompleted, <<>>)
      ELSE Result(TRUE, NoError, <<>>)

\* What todo:complete returns.  hasIndex is whether the payload holds a
\* number: with lineIndex undefined both comparisons of the range check are
\* false and lines[lineIndex] is undefined, as it is for any index outside the
\* array, so that .trim() throws and the catch returns the TypeError's message.
completeResult(f, hasIndex, lineIndex) ==
  LET lines == split(f.content)
  IN  IF ~f.exists THEN Result(FALSE, ErrFileNotFound, <<>>)
      ELSE IF hasIndex /\ outOfRange(lineIndex, lines)
           THEN Result(FALSE, ErrLineNotFound, <<>>)
      ELSE IF ~hasIndex \/ lineIndex + 1 \notin 1..Len(lines)
           THEN Result(FALSE, ErrTypeError, <<>>)
      ELSE IF isDoneOrBlank(trim(lines[lineIndex + 1]))
           THEN Result(FALSE, ErrAlreadyCompleted, <<>>)
      ELSE Result(TRUE, NoError, <<>>)

\* The task file after todo:complete
completeFile(f, hasIndex, lineIndex, today) ==
  IF completeResult(f, hasIndex, lineIndex).ok
  THEN [exists |-> TRUE,
        content |-> completedContent(split(f.content), lineIndex, today)]
  ELSE f

\* ipcMain.handle('todo:complete', ...)
TodoComplete(hasIndex, lineIndex) ==
  LET today == toLocaleDateString(now)
  IN  /\ Idle
      /\ resp' = completeResult(file, hasIndex, lineIndex)
      /\ file' = completeFile(file, hasIndex, lineIndex, today)
      /\ last' = [op |-> "todo:complete",
                  req |-> [hasIndex |-> hasIndex, lineIndex |-> lineIndex],
                  pre |-> file, today |-> today, done |-> doneSince]
      /\ doneSince' = IF resp'.ok THEN doneSince \cup {lineIndex} ELSE doneSince
      /\ UNCHANGED <<now, running, shown, win>>

\* ------------------------------------------------------- the environment

\* Twelve hours pass.
Tick ==
  /\ Idle
  /\ now < FirstInstant + 12 * MaxTicks
  /\ now' = now + 12
  /\ UNCHANGED <<file, resp, last, doneSince, running, shown, win>>

\* Another program removes the task file, or removes its first line.
ExternalEdits(f) ==
  {[exists |-> FALSE, content |-> <<>>],
   [exists |-> TRUE, content |-> join(Tail(split(f.content)))]}

\* The task file is edited outside the engine.
ExternalEdit ==
  /\ Idle
  /\ file.exists
  /\ file' \in ExternalEdits(file)
  /\ doneSince' = {}
  /\ UNCHANGED <<now, resp, last, running, shown, win>>

\* ipcRenderer.invoke(...) resolves: the renderer has the handler's result.
InvokeResolved ==
  /\ ~Idle
  /\ resp' = Result(TRUE, NoError, <<>>)
  /\ last' = NoCall
  /\ UNCHANGED <<file, now, doneSince, running, shown, win>>

\* The line indexes a caller may send: one before the first line up to one
\* past the last line of the current file.
LineIndexes == -1 .. Len(split(contentOf(file)))

Next ==
  \/ \E text \in Texts, priority \in Priorities, dueToday \in BOOLEAN,
        templateIndex \in TemplateIndexes :
       TodoAdd(NoConfigFile, text, priority, dueToday, templateIndex)
  \/ \E offsetChange \in HostOffsetChange : TodoListUrgent(offsetChange)
  \/ \E lineIndex \in LineIndexes : TodoComplete(TRUE, lineIndex)
  \/ TodoComplete(FALSE, 0)
  \/ InvokeResolved
  \/ Tick
  \/ ExternalEdit

Spec == Init /\ [][Next]_vars

\* The ranking alone, on every file of up to MaxRankLines sample lines.
InitRank ==
  /\ file \in FilesOf(MaxRankLines)
  /\ now = FirstInstant
  /\ resp = Result(TRUE, NoError, <<>>)
  /\ last = NoCall
  /\ doneSince = {}
  /\ running = {}
  /\ shown = NothingShown
  /\ win = WindowsCreated

NextRank ==
  \/ \E offsetChange \in HostOffsetChange : TodoListUrgent(offsetChange)
  \/ InvokeResolved
  \/ Tick

SpecRank == InitRank /\ [][NextRank]_vars

\* The parser alone, on every file of up to MaxParseLines parser lines.
InitParse ==
  /\ file \in ParseFiles(MaxParseLines)
  /\ now = FirstInstant
  /\ resp = Result(TRUE, NoError, <<>>)
  /\ last = NoCall
  /\ doneSince = {}
  /\ running = {}
  /\ shown = NothingShown
  /\ win = WindowsCreated

SpecParse == InitParse /\ [][NextRank]_vars

\* ------------------------------------------------------------ the triage

\* listUrgentTodos() resolves: the renderer keeps the list and shows it.
\* thresholdAt is the instant the threshold of that list was taken from.
ListShown ==
  /\ last.op = "todo:list-urgent"
  /\ resp.ok
  /\ shown' = [todos |-> resp.todos,
               thresholdAt |-> now + 7 * 24 + last.req.offsetChange]
  /\ resp' = Result(TRUE, NoError, <<>>)
  /\ last' = NoCall
  /\ UNCHANGED <<file, now, doneSince, running, win>>

\* The triage view: the list is asked for and shown, the items shown are
\* completed through their lineIndex, and the list is asked for again; nothing
\* else writes the file.
InitTriage ==
  /\ file \in TriageFiles(MaxTriageLines)
  /\ now = FirstInstant
  /\ resp = Result(TRUE, NoError, <<>>)
  /\ last = NoCall
  /\ doneSince = {}
  /\ running = {}
  /\ shown = NothingShown
  /\ win = WindowsCreated

NextTriage ==
  \/ \E offsetChange \in HostOffsetChange : TodoListUrgent(offsetChange)
  \/ ListShown
  \/ \E k \in 1..Len(shown.todos) : TodoComplete(TRUE, shown.todos[k].lineIndex)
  \/ InvokeResolved
  \/ Tick

SpecTriage == InitTriage /\ [][NextTriage]_vars

\* ------------------------------------------- payloads and storage faults

\* err.message of the TypeError text.trim() throws when the payload is an
\* object without a text
ErrNoText == "Cannot read properties of undefined (reading 'trim')"

\* The TypeError of destructuring an undefined payload in the handler's
\* parameter list
ErrNoPayload == "Cannot destructure property of undefined"

\* err.message of what fs.readFileSync and fs.writeFileSync throw
ErrRead == "EACCES: permission denied, open"

ErrWrite == "ENOSPC: no space left on device, write"

\* The handler threw: ipcRenderer.invoke's promise rejects and the caller gets
\* no result object.
Rejection(message) == [rejected |-> message]

\* What a failed fs.writeFileSync leaves of the file f: the file as it was
\* (the open failed), or the file truncated (the write failed after the open)
afterFailedWrite(f) == {f, [exists |-> TRUE, content |-> <<>>]}

\* What goes wrong in a todo:add call: the payload is undefined, the payload
\* has no text, the read of the task file throws, the write throws
AddFaults == {"no payload", "no text", "read", "write"}

\* ipcMain.handle('todo:add', ...) on a call in which something throws.  The
\* payload is destructured in the parameter list, outside the try: that
\* TypeError leaves the handler.  Everything else is thrown inside the try
\* and returned by the catch.
TodoAddFails(fault) ==
  /\ Idle
  /\ fault \in {"read"} => file.exists
  /\ resp' = CASE fault = "no payload" -> Rejection(ErrNoPayload)
                [] fault = "no text"    -> Result(FALSE, ErrNoText, <<>>)
                [] fault = "read"       -> Result(FALSE, ErrRead, <<>>)
                [] fault = "write"      -> Result(FALSE, ErrWrite, <<>>)
  /\ file' \in (IF fault = "write" THEN afterFailedWrite(file) ELSE {file})
  /\ last' = [op |-> "todo:add", fault |-> fault, pre |-> file,
              today |-> toLocaleDateString(now), done |-> doneSince]
  /\ doneSince' = IF file' = file THEN doneSince ELSE {}
  /\ UNCHANGED <<now, running, shown, win>>

\* ipcMain.handle('todo:list-urgent', ...) when the read of the task file
\* throws: the catch returns the error and no todos.
TodoListUrgentFails ==
  /\ Idle
  /\ file.exists
  /\ resp' = Result(FALSE, ErrRead, <<>>)
  /\ last' = [op |-> "todo:list-urgent", fault |-> "read", pre |-> file,
              today |-> toLocaleDateString(now), done |-> doneSince]
  /\ UNCHANGED <<file, now, doneSince, running, shown, win>>

\* What goes wrong in a todo:complete call
CompleteFaults == {"no payload", "read", "write"}

\* ipcMain.handle('todo:complete', ...) on a call in which something throws;
\* the write is reached only for a line that can be completed.
TodoCompleteFails(fault, lineIndex) ==
  /\ Idle
  /\ fault \in {"read", "write"} => file.exists
  /\ fault = "write" => completeResult(file, TRUE, lineIndex).ok
  /\ resp' = CASE fault = "no payload" -> Rejection(ErrNoPayload)
                [] fault = "read"       -> Result(FALSE, ErrRead, <<>>)
                [] fault = "write"      -> Result(FALSE, ErrWrite, <<>>)
  /\ file' \in (IF fault = "write" THEN afterFailedWrite(file) ELSE {file})
  /\ last' = [op |-> "todo:complete", fault |-> fault, pre |-> file,
              today |-> toLocaleDateString(now), done |-> doneSince]
  /\ doneSince' = IF file' = file THEN doneSince ELSE {}
  /\ UNCHANGED <<now, running, shown, win>>

\* The engine with malformed payloads and failing storage.
NextFaults ==
  \/ \E text \in Texts, priority \in Priorities, dueToday \in BOOLEAN,
        templateIndex \in TemplateIndexes :
       TodoAdd(NoConfigFile, text, priority, dueToday, templateIndex)
  \/ \E offsetChange \in HostOffsetChange : TodoListUrgent(offsetChange)
  \/ \E lineIndex \in LineIndexes : TodoComplete(TRUE, lineIndex)
  \/ TodoComplete(FALSE, 0)
  \/ \E fault \in AddFaults : TodoAddFails(fault)
  \/ TodoListUrgentFails
  \/ \E fault \in CompleteFaults, lineIndex \in LineIndexes :
       TodoCompleteFails(fault, lineIndex)
  \/ InvokeResolved

SpecFaults == Init /\ [][NextFaults]_vars

\* --------------------------------------------------------- the event loop

\* The requests the renderer sends without waiting for the answers, taken by
\* the main process in any order
LoopCalls ==
  {[op |-> "todo:add",
    req |-> [stored |-> NoConfigFile, text |-> text, priority |-> priority,
             dueToday |-> FALSE, templateIndex |-> -1]] :
     text \in Texts, priority \in Priorities}
    \cup {[op |-> "todo:list-urgent", req |-> [offsetChange |-> 0]]}
    \cup {[op |-> "todo:complete", req |-> [hasIndex |-> TRUE, lineIndex |-> i]] :
            i \in 0..MaxLines}

\* Mutant of loopFree: the handlers await their file I/O, and the event loop
\* takes the next request while one of them waits.
loopFree_Async == TRUE

\* The event loop can take a request: no handler is on the stack.  The
\* handlers are synchronous functions that call fs.readFileSync and
\* fs.writeFileSync, so each runs to its return before the next callback.
loopFree == running = {}

\* A handler is called and reads: the date, existsSync, readFileSync.
HandlerReads(call) ==
  /\ loopFree
  /\ call.op = "todo:add" => Len(split(trimEnd(contentOf(file)))) <= MaxLines
  /\ running' = running \cup {[op |-> call.op, req |-> call.req, pre |-> file,
                                today |-> toLocaleDateString(now)]}
  /\ UNCHANGED <<file, now, resp, last, doneSince, shown, win>>

\* What the handler of frame fr returns
frameResult(fr) ==
  CASE fr.op = "todo:add" -> Result(TRUE, NoError, <<>>)
    [] fr.op = "todo:list-urgent" -> listUrgentResult(fr.pre, now, fr.req.offsetChange)
    [] fr.op = "todo:complete" ->
         completeResult(fr.pre, fr.req.hasIndex, fr.req.lineIndex)

\* The task file after the handler of frame fr: what it writes is computed
\* from what it read; a handler that does not write leaves the file as it is
frameFile(fr) ==
  CASE fr.op = "todo:add" ->
         [exists |-> TRUE,
          content |-> addedContent(fr.pre,
                        composeTodo(readConfig(fr.req.stored), fr.req.text,
                                    fr.req.priority, fr.req.dueToday,
                                    fr.req.templateIndex, fr.today))]
    [] fr.op = "todo:list-urgent" -> file
    [] fr.op = "todo:complete" ->
         IF frameResult(fr).ok
         THEN completeFile(fr.pre, fr.req.hasIndex, fr.req.lineIndex, fr.today)
         ELSE file

\* The handler computes, writes (writeFileSync) and returns.
HandlerWritesAndReturns(fr) ==
  /\ fr \in running
  /\ running' = running \ {fr}
  /\ resp' = frameResult(fr)
  /\ file' = frameFile(fr)
  /\ last' = [op |-> fr.op, req |-> fr.req, pre |-> fr.pre, today |-> fr.today,
              done |-> doneSince]
  /\ doneSince' = CASE fr.op = "todo:add" -> {}
                     [] fr.op = "todo:list-urgent" -> doneSince
                     [] fr.op = "todo:complete" ->
                          IF resp'.ok THEN doneSince \cup {fr.req.lineIndex}
                          ELSE doneSince
  /\ UNCHANGED <<now, shown, win>>

NextLoop ==
  \/ \E call \in LoopCalls : HandlerReads(call)
  \/ \E fr \in running : HandlerWritesAndReturns(fr)

SpecLoop == Init /\ [][NextLoop]_vars

\* The composer alone: one todo:add on every starting file, with every
\* configuration, text, priority, due flag and template index.
InitCompose ==
  /\ file \in ComposeFiles(MaxTail)
  /\ now = FirstInstant
  /\ resp = Result(TRUE, NoError, <<>>)
  /\ last = NoCall
  /\ doneSince = {}
  /\ running = {}
  /\ shown = NothingShown
  /\ win = WindowsCreated

NextCompose ==
  \E stored \in ConfigFiles, text \in ComposeTexts, priority \in Priorities,
     dueToday \in BOOLEAN, templateIndex \in ComposeTemplateIndexes :
    TodoAdd(stored, text, priority, dueToday, templateIndex)

SpecCompose == InitCompose /\ [][NextCompose]_vars

\* ------------------------------------------------------------ the windows

Panels == {"form", "list"}

\* index.js 188
shownEvent(panel) == IF panel = "list" THEN "window:shown-list" ELSE "window:shown"

\* clearTimeout(handle): the timer of that handle, if it is still set, is
\* cancelled; every other timer stays (null and a fired handle clear nothing)
clearTimeout(timers, handle) == timers \ {handle}

\* The timers fire in the order they were set: all have the same delay of
\* 150 ms (index.js 149)
nextToFire(timers) == CHOOSE t \in timers : \A u \in timers : t <= u

\* mainWindow.on('blur') (index.js 147-151): the window loses the focus; with
\* the settings window closed a new timer is set and its handle is assigned
\* to blurHideTimer, whatever handle was there.
MainWindowBlur ==
  /\ win.focused
  /\ win.isSettingsOpen \/ win.nextTimer <= MaxTimers
  /\ win' = IF win.isSettingsOpen
              THEN [win EXCEPT !.focused = FALSE, !.hiddenBy = 0]
              ELSE [win EXCEPT !.focused = FALSE,
                               !.blurHideTimer = win.nextTimer,
                               !.timers = @ \cup {win.nextTimer},
                               !.nextTimer = @ + 1,
                               !.hiddenBy = 0]
  /\ UNCHANGED <<file, now, resp, last, doneSince, running, shown>>

\* The timer's callback (index.js 149): () => mainWindow.hide()
BlurHideTimerFires ==
  /\ win.timers # {}
  /\ LET t == nextToFire(win.timers)
     IN  win' = [win EXCEPT !.visible = FALSE,
                            !.timers = @ \ {t},
                            !.hiddenBy = t]
  /\ UNCHANGED <<file, now, resp, last, doneSince, running, shown>>

\* The system gives the visible main window the focus (after show() and
\* focus(), or a click): the once('focus') listeners send their events
\* (index.js 205) and are gone.
MainWindowFocus ==
  /\ win.visible
  /\ ~win.focused
  /\ win' = [win EXCEPT !.focused = TRUE,
                        !.sent = IF win.focusOnce = <<>> THEN @
                                 ELSE win.focusOnce[Len(win.focusOnce)],
                        !.focusOnce = <<>>,
                        !.hiddenBy = 0]
  /\ UNCHANGED <<file, now, resp, last, doneSince, running, shown>>

\* showMainWindowWithPanel (index.js 183-207); mainWindow is never null after
\* createMainWindow.  The older main file's toggleMainWindow
\* (src/unnamed/part_000 103-116) is the same function with the form panel
\* only.
showMainWindowWithPanel(panel) ==
  /\ win.visible \/ Len(win.focusOnce) < MaxListeners
  /\ LET cleared == clearTimeout(win.timers, win.blurHideTimer)
     IN  win' =
           IF win.visible
             THEN IF win.currentPanel = panel
                    THEN [win EXCEPT !.timers = cleared,
                                     !.visible = FALSE,
                                     !.hiddenBy = 0]
                    ELSE [win EXCEPT !.timers = cleared,
                                     !.currentPanel = panel,
                                     !.sent = shownEvent(panel),
                                     !.hiddenBy = 0]
             ELSE [win EXCEPT !.timers = cleared,
                              !.currentPanel = panel,
                              !.visible = TRUE,
                              !.focusOnce = Append(@, shownEvent(panel)),
                              !.shownAt = win.nextTimer,
                              !.hiddenBy = 0]
  /\ UNCHANGED <<file, now, resp, last, doneSince, running, shown>>

\* index.js 209-210: the two shortcuts, and the tray's first menu item
toggleMainWindow == showMainWindowWithPanel("form")

toggleListWindow == showMainWindowWithPanel("list")

\* ipcMain.handle('window:hide') (index.js 349)
WindowHide ==
  /\ win' = [win EXCEPT !.visible = FALSE, !.hiddenBy = 0]
  /\ UNCHANGED <<file, now, resp, last, doneSince, running, shown>>

\* openSettingsWindow (index.js 154-181) up to the new window: an open
\* settings window is focused and nothing else happens
openSettingsWindow ==
  /\ win' = IF win.isSettingsOpen
              THEN [win EXCEPT !.hiddenBy = 0]
              ELSE [win EXCEPT !.isSettingsOpen = TRUE,
                               !.alwaysOnTop = FALSE,
                               !.hiddenBy = 0]
  /\ UNCHANGED <<file, now, resp, last, doneSince, running, shown>>

\* settingsWindow.on('closed') (index.js 173-180)
SettingsWindowClosed ==
  /\ win.isSettingsOpen
  /\ win' = [win EXCEPT !.isSettingsOpen = FALSE,
                        !.alwaysOnTop = TRUE,
                        !.sent = "config:updated",
                        !.hiddenBy = 0]
  /\ UNCHANGED <<file, now, resp, last, doneSince, running, shown>>

\* The windows alone, on one task file that no handler touches
InitWindow ==
  /\ file = [exists |-> FALSE, content |-> <<>>]
  /\ now = FirstInstant
  /\ resp = Result(TRUE, NoError, <<>>)
  /\ last = NoCall
  /\ doneSince = {}
  /\ running = {}
  /\ shown = NothingShown
  /\ win = WindowsCreated

NextWindow ==
  \/ MainWindowBlur
  \/ BlurHideTimerFires
  \/ MainWindowFocus
  \/ toggleMainWindow
  \/ toggleListWindow
  \/ WindowHide
  \/ openSettingsWindow
  \/ SettingsWindowClosed

SpecWindow == InitWindow /\ [][NextWindow]_vars

\* ================================================================= claims

\* The lines of the file a call saw, and of the file it left
preLines == split(contentOf(last.pre))

postLines == split(contentOf(file))

Added == last.op = "todo:add" /\ resp.ok

Completed == last.op = "todo:complete" /\ resp.ok

\* A todo:complete call on an existing file with a numeric lineIndex
CompleteCall == last.op = "todo:complete" /\ last.pre.exists /\ last.req.hasIndex

\* The raw line todo:complete was aimed at
targetLine == preLines[last.req.lineIndex + 1]

\* ---- C1
\* C1: a successful todo:add or todo:complete leaves every line of the file
\* other than the appended line (add) or the targeted line (complete)
\* character-for-character as it was.  For todo:add this is read in the
\* claim's favour: only the lines that hold a task (are not blank) must be
\* found again, unchanged, at their index; for todo:complete the file must
\* keep its line count and every line but the targeted one.
C1_OtherLinesUnchanged ==
  /\ Added =>
       \A i \in 1..Len(preLines) :
          trim(preLines[i]) # <<>> =>
             i <= Len(postLines) /\ postLines[i] = preLines[i]
  /\ Completed =>
       /\ Len(postLines) = Len(preLines)
       /\ \A i \in 1..Len(preLines) :
             i # last.req.lineIndex + 1 => postLines[i] = preLines[i]

\* ---- C2
\* C2: todo:complete with lineIndex < 0 or lineIndex >= lineCount, lineCount
\* being the number of lines of the file as the call reads it, returns
\* {ok: false} with the out-of-range error and leaves the file as it was.
C2_OutOfRange ==
  (CompleteCall /\ (last.req.lineIndex < 0 \/ last.req.lineIndex >= Len(preLines)))
    => /\ resp = Result(FALSE, ErrLineNotFound, <<>>)
       /\ file = last.pre

\* C2's case: lineIndex = lineCount on a file of two or more lines.
C2_Witness ==
  /\ CompleteCall
  /\ Len(preLines) >= 2
  /\ last.req.lineIndex = Len(preLines)
  /\ resp.error = ErrLineNotFound

C4_ClaimedLine(raw, today) ==
  LET t == trim(raw)
      p == /\ Len(t) >= 4
           /\ t[1] = "("
           /\ t[2] \in Upper
           /\ t[3] = ")"
           /\ t[4] = " "
  IN  <<"x", " ">> \o today \o <<" ">> \o (IF p THEN SubSeq(t, 5, Len(t)) ELSE t)

\* The line the handler puts there: the prefix taken off is "(<letter>)" and
\* all the white space behind it.
C4_AmendedLine(raw, today) ==
  LET t == trim(raw)
      p == /\ Len(t) >= 4
           /\ t[1] = "("
           /\ t[2] \in Upper
           /\ t[3] = ")"
           /\ t[4] \in WhiteSpace
  IN  <<"x", " ">> \o today \o <<" ">>
        \o (IF p THEN SubSeq(t, firstNonSpace(t, 4), Len(t)) ELSE t)

\* C4 as stated: a successful todo:complete replaces the target line with
\* "x <today> " followed by the target line with any leading "(<letter>) "
\* removed, the rest kept as is.
C4_Original ==
  Completed => postLines[last.req.lineIndex + 1] = C4_ClaimedLine(targetLine, last.today)

\* C4 as amended: a successful todo:complete replaces the target line with
\* "x <today> " followed by the target line trimmed of its leading and
\* trailing white space and with a leading "(<uppercase letter>)" and the
\* whole run of white space behind it removed; the creation date and the
\* description are kept; "(B) 2024-01-01 Call bank" completed on 2024-05-05
\* becomes "x 2024-05-05 2024-01-01 Call bank".
C4_CompletedLine ==
  /\ Completed =>
       postLines[last.req.lineIndex + 1] = C4_AmendedLine(targetLine, last.today)
  /\ completedLine(<<"(", "B", ")", " ", "2", "0", "2", "4", "-", "0", "1", "-",
                     "0", "1", " ", "C", "a", "l", "l", " ", "b", "a", "n", "k">>,
                   <<"2", "0", "2", "4", "-", "0", "5", "-", "0", "5">>)
       = <<"x", " ", "2", "0", "2", "4", "-", "0", "5", "-", "0", "5", " ",
           "2", "0", "2", "4", "-", "0", "1", "-", "0", "1", " ",
           "C", "a", "l", "l", " ", "b", "a", "n", "k">>

\* C4's case: a line with a priority and a creation date has been completed.
C4_Witness ==
  /\ Completed
  /\ priorityMatch(trim(targetLine)) > 0
  /\ dateAt(withoutPriority(trim(targetLine)), 1)
  /\ startsWith(postLines[last.req.lineIndex + 1], <<"x", " ">> \o last.today)

\* ---- C5
\* C5: completion is a one-shot transition per line.  Once todo:complete has
\* succeeded on an index, and while nothing else has written the file since,
\* every later todo:complete on that index fails with the already-completed
\* error and leaves the file as it is; the line a success leaves starts with
\* "x " and the file keeps its line count.
C5_OneShot ==
  /\ (CompleteCall /\ last.req.lineIndex \in last.done)
       => /\ resp = Result(FALSE, ErrAlreadyCompleted, <<>>)
          /\ file = last.pre
  /\ Completed =>
       /\ Len(postLines) = Len(preLines)
       /\ startsWith(postLines[last.req.lineIndex + 1], <<"x", " ">>)

\* C5's case: a second todo:complete on an index completed before.
C5_Witness ==
  /\ CompleteCall
  /\ last.req.lineIndex \in last.done
  /\ resp.error = ErrAlreadyCompleted

\* ---- C6
Listed == last.op = "todo:list-urgent" /\ last.pre.exists

\* The date seven days after the day of the call
C6_TodayPlus7 == formatDate(((now + 9) \div 24) + 7)

\* Line i (from 1) of the file qualifies as the claim has it: not blank, not
\* starting with "x ", and of priority A or due no later than today + 7 days.
C6_Qualifies(i) ==
  LET t    == trim(preLines[i])
      item == parseLine(t, i - 1, last.today)
  IN  /\ t # <<>>
      /\ ~startsWith(t, <<"x", " ">>)
      /\ \/ item.priority = <<"A">>
         \/ (item.due # <<>> /\ ~strLess(C6_TodayPlus7, item.due))

\* C6: todo:list-urgent returns exactly the lines that are not blank, do not
\* start with "x ", and have priority A or a due date no later than today + 7
\* days: each such line once, with its 0-based lineIndex, and no other line.
C6_ExactlyUrgent ==
  Listed =>
    /\ resp.ok
    /\ {resp.todos[k].lineIndex : k \in 1..Len(resp.todos)}
         = {i - 1 : i \in {j \in 1..Len(preLines) : C6_Qualifies(j)}}
    /\ \A k, m \in 1..Len(resp.todos) :
          resp.todos[k].lineIndex = resp.todos[m].lineIndex => k = m

\* ---- C7
\* a ranks strictly before b by the claim's keys: overdue first, then
\* priority A, then a due date before none and the earlier due date first.
C7_RanksBefore(a, b) ==
  LET aA == a.priority = <<"A">>
      bA == b.priority = <<"A">>
      dueFirst == \/ a.due # <<>> /\ b.due = <<>>
                  \/ a.due # <<>> /\ b.due # <<>> /\ strLess(a.due, b.due)
  IN  \/ a.isOverdue /\ ~b.isOverdue
      \/ a.isOverdue = b.isOverdue /\ aA /\ ~bA
      \/ a.isOverdue = b.isOverdue /\ aA = bA /\ dueFirst

\* C7: the returned sequence is ordered by the keys (no item ranks strictly
\* after a later one), items equal on all keys keep the file's order, and
\* the comparator is a consistent total preorder on the items: it is negative
\* exactly where the first item ranks before the second, its sign flips when
\* the arguments are swapped, and ranking before is transitive.
C7_Ordered ==
  Listed =>
    LET todos == resp.todos
        N     == 1..Len(resp.todos)
    IN  /\ \A i, j \in N :
             i < j =>
               /\ ~C7_RanksBefore(todos[j], todos[i])
               /\ ~C7_RanksBefore(todos[i], todos[j])
                    => todos[i].lineIndex < todos[j].lineIndex
        /\ \A i, j \in N :
             /\ (compare(todos[i], todos[j]) < 0) = C7_RanksBefore(todos[i], todos[j])
             /\ (compare(todos[i], todos[j]) > 0) = C7_RanksBefore(todos[j], todos[i])
        /\ \A i, j, k \in N :
             (C7_RanksBefore(todos[i], todos[j]) /\ C7_RanksBefore(todos[j], todos[k]))
               => C7_RanksBefore(todos[i], todos[k])

\* C7's case: three items, the overdue one without priority A taken from the
\* end of the file to the front, before two priority-A items that tie and
\* keep their order.
C7_Witness ==
  /\ Listed
  /\ Len(resp.todos) = 3
  /\ resp.todos[1].isOverdue
  /\ resp.todos[1].priority # <<"A">>
  /\ resp.todos[1].lineIndex = 2
  /\ resp.todos[2].priority = <<"A">>
  /\ ~resp.todos[2].isOverdue
  /\ ~C7_RanksBefore(resp.todos[2], resp.todos[3])
  /\ resp.todos[2].lineIndex = 0
  /\ resp.todos[3].lineIndex = 1

\* ---- C8
\* A date YYYY-MM-DD as the number YYYYMMDD
C8_DateNumber(d) ==
  LET v(i) == codeUnit(d[i]) - codeUnit("0")
  IN  (v(1) * 1000 + v(2) * 100 + v(3) * 10 + v(4)) * 10000
        + (v(6) * 10 + v(7)) * 100 + v(9) * 10 + v(10)

\* C8: for every returned item, isOverdue is true exactly when its line has a
\* due date strictly earlier than today; due today or no due date: false.
C8_Overdue ==
  Listed =>
    \A k \in 1..Len(resp.todos) :
       LET t   == resp.todos[k]
           due == dueMatch(trim(preLines[t.lineIndex + 1]))
       IN  /\ t.due = due
           /\ t.isOverdue =
                (due # <<>> /\ C8_DateNumber(due) < C8_DateNumber(last.today))

\* C8's case: an item due exactly today is listed as not overdue next to an
\* overdue item and an item without a due date.
C8_Witness ==
  /\ Listed
  /\ \E k \in 1..Len(resp.todos) :
        resp.todos[k].due = last.today /\ ~resp.todos[k].isOverdue
  /\ \E k \in 1..Len(resp.todos) : resp.todos[k].isOverdue
  /\ \E k \in 1..Len(resp.todos) :
        resp.todos[k].due = <<>> /\ ~resp.todos[k].isOverdue

\* ---- C9
\* C9: todo:list-urgent against a missing task file returns
\* {ok: true, todos: []} and no error.
C9_MissingFile ==
  (last.op = "todo:list-urgent" /\ ~last.pre.exists)
    => resp = Result(TRUE, NoError, <<>>)

\* C9's case: todo:list-urgent has been called with the task file absent.
C9_Witness ==
  /\ last.op = "todo:list-urgent"
  /\ ~last.pre.exists
  /\ resp.ok
  /\ resp.todos = <<>>

\* ---- C10
\* C10: todo:list-urgent is read-only: whether the task file is present, with
\* any content, or absent, the call neither changes it nor creates it.
C10_ReadOnly ==
  last.op = "todo:list-urgent" => file = last.pre

\* C10's case: todo:list-urgent has returned items of a file and the file is
\* as it was.
C10_Witness ==
  /\ last.op = "todo:list-urgent"
  /\ last.pre.exists
  /\ Len(resp.todos) >= 2
  /\ file = last.pre

\* ---- C11
\* The strings of a sequence, one after the other
RECURSIVE C11_Concat(_)
C11_Concat(strs) ==
  IF strs = <<>> THEN <<>> ELSE Head(strs) \o C11_Concat(Tail(strs))

\* A template's tags as the claim has them: a space and "+project" for each
\* project, then a space and "@context" for each context, in template order
C11_Tags(tmpl) ==
  C11_Concat([i \in 1..Len(tmpl.projects) |-> <<" ", "+">> \o tmpl.projects[i]])
    \o C11_Concat([i \in 1..Len(tmpl.contexts) |-> <<" ", "@">> \o tmpl.contexts[i]])

\* The templates of the configuration the call read
C11_Templates == readConfig(last.req.stored).templates

\* The call's templateIndex names a template
C11_Resolves == last.req.templateIndex \in 0..(Len(C11_Templates) - 1)

\* C11: the description todo:add composes is trim(text), then (only when a
\* template resolves and has a tag) a space and the tags "+project" for each
\* project followed by "@context" for each context, in template order, then
\* (only when dueToday) " due:<today>", so that the due token is behind the
\* tags; with no template the record has no projects and no contexts, and
\* with no due flag either the description is trim(text).  "Sync" with the
\* template work / meeting gives "Sync +work @meeting".
C11_Description ==
  /\ Added =>
       LET tmpl == C11_Templates[last.req.templateIndex + 1]
           tags == IF C11_Resolves THEN C11_Tags(tmpl) ELSE <<>>
           due  == IF last.req.dueToday
                   THEN <<" ", "d", "u", "e", ":">> \o toLocaleDateString(now)
                   ELSE <<>>
       IN  /\ last.todo.description = trim(last.req.text) \o tags \o due
           /\ last.todo.projects = (IF C11_Resolves THEN tmpl.projects ELSE <<>>)
           /\ last.todo.contexts = (IF C11_Resolves THEN tmpl.contexts ELSE <<>>)
           /\ (~C11_Resolves /\ ~last.req.dueToday)
                 => last.todo.description = trim(last.req.text)
  /\ composeDescription(<<"S", "y", "n", "c">>, FALSE,
                        resolveTemplate(DEFAULT_CONFIG, 1), <<>>)
       = <<"S", "y", "n", "c", " ", "+", "w", "o", "r", "k", " ",
           "@", "m", "e", "e", "t", "i", "n", "g">>

\* C11's case: a text with white space around it, a template with two
\* projects and two contexts, and the due flag.
C11_Witness ==
  /\ Added
  /\ last.req.text = <<" ", "b", "\t">>
  /\ last.todo.description
       = <<"b", " ", "+", "p", " ", "+", "q", " ", "@", "c", " ", "@", "d", " ",
           "d", "u", "e", ":", "2", "0", "2", "4", "-", "0", "3", "-", "0", "6">>

\* ---- C12
\* C12: when todo:add resolves a template whose priority is a letter, the
\* record it composes carries that priority, as it carries the template's
\* projects and contexts.
C12_TemplatePriority ==
  (Added /\ C11_Resolves /\ C11_Templates[last.req.templateIndex + 1].priority # <<>>)
    => /\ last.todo.priority = C11_Templates[last.req.templateIndex + 1].priority
       /\ last.todo.projects = C11_Templates[last.req.templateIndex + 1].projects
       /\ last.todo.contexts = C11_Templates[last.req.templateIndex + 1].contexts

\* ---- C13
\* C13: after every successful todo:add, whatever the file held before
\* (absent, empty, ending with no, one or several newlines or other white
\* space), the file ends with exactly one newline, and the line in front of
\* it is the composed line, which is not empty: the last non-empty line.
C13_OneTrailingNewline ==
  Added =>
    LET c     == file.content
        n     == Len(c)
        lines == split(c)
    IN  /\ file.exists
        /\ n >= 2
        /\ c[n] = "\n"
        /\ c[n - 1] # "\n"
        /\ Len(lines) >= 2
        /\ lines[Len(lines)] = <<>>
        /\ lines[Len(lines) - 1] = serializeTodo(last.todo)
        /\ lines[Len(lines) - 1] # <<>>

\* C13's case: the file ended with two newlines and a blank before the call,
\* and holds the task line it had and the composed line after it.
C13_Witness ==
  /\ Added
  /\ last.pre.content = <<"(", "A", ")", " ", "a", "\n", "\n">>
  /\ Len(postLines) = 3
  /\ postLines[1] = <<"(", "A", ")", " ", "a">>
  /\ postLines[3] = <<>>

\* ---- C14
\* The text ends with a newline
C14_EndsWithNewline(c) == Len(c) > 0 /\ c[Len(c)] = "\n"

\* C14: a successful todo:complete writes the lines back joined by newlines
\* and forces no newline at the end: the file keeps its number of lines, it
\* ends with a newline exactly if it did before, and every line but the
\* targeted one is found unchanged at its index.
C14_LinesKept ==
  Completed =>
    /\ Len(postLines) = Len(preLines)
    /\ C14_EndsWithNewline(file.content) = C14_EndsWithNewline(last.pre.content)
    /\ \A i \in 1..Len(preLines) :
          i # last.req.lineIndex + 1 => postLines[i] = preLines[i]

\* C14's case: the last line of a file that ends with no newline has been
\* completed, and the file still ends with none.
C14_Witness ==
  /\ Completed
  /\ last.req.lineIndex = Len(preLines) - 1
  /\ ~C14_EndsWithNewline(last.pre.content)
  /\ ~C14_EndsWithNewline(file.content)
  /\ startsWith(postLines[Len(postLines)], <<"x", " ">>)

\* ---- C15
\* The calendar date of the instant in the reference time zone, Asia/Tokyo
C15_Today == formatDate((now + 9) \div 24)

\* C15: at any one instant the date todo:add stamps as creationDate and as
\* due:<today> (in this main file and in the older one), the today of
\* todo:list-urgent for isOverdue and as the base of its seven-day threshold,
\* and the date todo:complete stamps after "x " are the same calendar date.
C15_UniformDate ==
  /\ Added =>
       /\ last.todo.creationDate = C15_Today
       /\ last.req.dueToday => last.todo.due = C15_Today
       /\ toISODate(now) = C15_Today
  /\ Listed =>
       /\ \A k \in 1..Len(resp.todos) :
             resp.todos[k].isOverdue
               = (resp.todos[k].due # <<>> /\ strLess(resp.todos[k].due, C15_Today))
       /\ thresholdStrOf(now, last.req.offsetChange)
            = formatDate(((now + 9) \div 24) + 7)
  /\ Completed =>
       startsWith(postLines[last.req.lineIndex + 1],
                  <<"x", " ">> \o C15_Today \o <<" ">>)

C16_Structured == DOMAIN resp = {"ok", "error", "todos"}

\* C16: every failure of todo:add, todo:list-urgent or todo:complete (task
\* file absent for completion, index out of range, already completed, a read
\* or write fault, a malformed payload) comes back to the caller as
\* {ok: false, error: <message>}: no handler throws or rejects.
C16_StructuredFailures ==
  ~Idle =>
    /\ C16_Structured
    /\ ~resp.ok => resp.error # NoError
    /\ "fault" \in DOMAIN last => ~resp.ok
    /\ (last.op = "todo:complete" /\ "fault" \notin DOMAIN last) =>
         (resp.ok = completeResult(last.pre, last.req.hasIndex, last.req.lineIndex).ok)

\* ---- C18
\* C18: no two engine handlers interleave their read-modify-write cycles,
\* in whatever order the requests arrive: at most one handler is between its
\* read and its return, and the task file is still what that handler read, so
\* that what it writes is computed from the file as it is and no call's
\* effect is lost; what a handler has returned and left is its result on the
\* file the call before it left.
C18_NoInterleaving ==
  /\ Cardinality(running) <= 1
  /\ \A fr \in running : file = fr.pre
  /\ (~Idle /\ running = {}) =>
       /\ last.op = "todo:add" =>
            Len(split(trimEnd(file.content)))
              = Len(split(trimEnd(contentOf(last.pre))))
                  + (IF trimEnd(contentOf(last.pre)) = <<>> THEN 0 ELSE 1)
       /\ last.op = "todo:complete" /\ resp.ok =>
            \A i \in 1..Len(preLines) :
               i # last.req.lineIndex + 1 => postLines[i] = preLines[i]

\* C18's case: two todo:add calls and a todo:complete have run one after
\* the other, and the file holds the effect of each: two composed lines, the
\* first of them completed.
C18_Witness ==
  /\ running = {}
  /\ Completed
  /\ Len(postLines) = 3
  /\ startsWith(postLines[1], <<"x", " ">> \o last.today \o <<" ">> \o last.today)
  /\ dateAt(postLines[2], 1)

\* ---- C19
\* The first place of the line where "due:" and a date YYYY-MM-DD stand
\* (0 when there is none)
C19_FirstDue(t) ==
  LET At(i) == /\ i + 13 <= Len(t)
               /\ t[i] = "d" /\ t[i + 1] = "u" /\ t[i + 2] = "e" /\ t[i + 3] = ":"
               /\ dateAt(t, i + 4)
  IN  IF \E i \in 1..Len(t) : At(i)
      THEN CHOOSE i \in 1..Len(t) : At(i) /\ \A j \in 1..(i - 1) : ~At(j)
      ELSE 0

\* The fields of a trimmed line when the priority prefix is "(<letter>)"
\* and sep white-space characters at most (all of them when sep = 0), and
\* the creation-date prefix is "YYYY-MM-DD" and white space likewise
C19_Fields(t, sep) ==
  LET Behind(u, i) == IF sep = 0 THEN firstNonSpace(u, i) ELSE i + sep
      Sep(u, i)    == /\ Len(u) >= i
                      /\ IF sep = 0 THEN u[i] \in WhiteSpace ELSE u[i] = " "
      hasPrio == /\ Len(t) >= 3
                 /\ t[1] = "("
                 /\ t[2] \in Upper
                 /\ t[3] = ")"
                 /\ Sep(t, 4)
      rest    == IF hasPrio THEN SubSeq(t, Behind(t, 4), Len(t)) ELSE t
      hasDate == dateAt(rest, 1) /\ Sep(rest, 11)
      desc    == IF hasDate THEN SubSeq(rest, Behind(rest, 11), Len(rest)) ELSE rest
      d       == C19_FirstDue(t)
  IN  [priority |-> IF hasPrio THEN <<t[2]>> ELSE <<>>,
       due      |-> IF d = 0 THEN <<>> ELSE SubSeq(t, d + 4, d + 13),
       desc     |-> trim(desc)]

\* The call returns ok, every returned item has the fields Fields gives for
\* its trimmed line, and so has what the parser makes of every line of the
\* file that is neither blank nor completed, returned or not
C19_ItemsAre(Fields(_)) ==
  Listed =>
    /\ resp.ok
    /\ \A k \in 1..Len(resp.todos) :
          LET item == resp.todos[k]
              f    == Fields(trim(preLines[item.lineIndex + 1]))
          IN  /\ item.priority = f.priority
              /\ item.due = f.due
              /\ item.desc = f.desc
    /\ \A i \in 1..Len(preLines) :
          isActive(trim(preLines[i])) =>
            LET item == parseLine(trim(preLines[i]), i - 1, last.today)
                f    == Fields(trim(preLines[i]))
            IN  /\ item.priority = f.priority
                /\ item.due = f.due
                /\ item.desc = f.desc

\* C19 as stated: priority is the letter of a leading "(<letter>) ", with
\* one space; desc is the line with that prefix and then a leading
\* "YYYY-MM-DD " removed, trimmed.
C19_Original ==
  LET Stated(t) == C19_Fields(t, 1)
  IN  C19_ItemsAre(Stated)

\* C19 as amended: for every line that is neither blank nor completed,
\* trimmed, and for the items returned, priority is the
\* letter of a leading "(<uppercase letter>)" that is followed by white
\* space (a space or a tab, one or more), or null; due is the date of the
\* first "due:YYYY-MM-DD" anywhere in the line, or null; desc is the line
\* with that priority prefix and all the white space behind it removed, then
\* a leading "YYYY-MM-DD" that is followed by white space removed with that
\* white space, trimmed, the due token still in it; and the call returns ok
\* whatever the lines are.
C19_ParsedFields ==
  LET Amended(t) == C19_Fields(t, 0)
  IN  C19_ItemsAre(Amended)

\* C19's case: a priority followed by a tab and a creation date followed by
\* a tab are both taken off the line.
C19_Witness ==
  /\ Listed
  /\ Len(resp.todos) = 1
  /\ trim(preLines[resp.todos[1].lineIndex + 1])
       = <<"(", "A", ")", "\t", "2", "0", "2", "4", "-", "0", "3", "-", "0", "1", "\t", "z">>
  /\ resp.todos[1].priority = <<"A">>
  /\ resp.todos[1].desc = <<"z">>

\* ---- C20
\* The lineIndex values of the items of a list
C20_Indexes(todos) == {todos[k].lineIndex : k \in 1..Len(todos)}

\* C20: every item todo:list-urgent has returned can be completed through
\* its lineIndex while nothing else writes the file: the first
\* todo:complete with the lineIndex of a shown item succeeds and marks the
\* line the item was parsed from and no other; a todo:list-urgent after it
\* (the host's clock not running backwards) has no item with a completed
\* lineIndex, and has every other shown item, at the same lineIndex and with
\* the same priority, due date and description.
C20_Completable ==
  /\ (last.op = "todo:complete" /\ last.req.lineIndex \notin last.done) =>
       /\ resp = Result(TRUE, NoError, <<>>)
       /\ Len(postLines) = Len(preLines)
       /\ \A i \in 1..Len(preLines) :
             IF i = last.req.lineIndex + 1
             THEN postLines[i] = completedLine(trim(preLines[i]), last.today)
             ELSE postLines[i] = preLines[i]
       /\ \A k \in 1..Len(shown.todos) :
             shown.todos[k].lineIndex = last.req.lineIndex =>
               LET f == C19_Fields(trim(targetLine), 0)
               IN  /\ shown.todos[k].priority = f.priority
                   /\ shown.todos[k].due = f.due
                   /\ shown.todos[k].desc = f.desc
  /\ (last.op = "todo:list-urgent"
        /\ now + 7 * 24 + last.req.offsetChange >= shown.thresholdAt) =>
       /\ resp.ok
       /\ C20_Indexes(resp.todos) \cap doneSince = {}
       /\ \A k \in 1..Len(shown.todos) :
             shown.todos[k].lineIndex \notin doneSince =>
               \E m \in 1..Len(resp.todos) :
                  /\ resp.todos[m].lineIndex = shown.todos[k].lineIndex
                  /\ resp.todos[m].priority = shown.todos[k].priority
                  /\ resp.todos[m].due = shown.todos[k].due
                  /\ resp.todos[m].desc = shown.todos[k].desc

\* C20's case: two items were shown, the first has been completed through
\* its lineIndex, and the list asked for again on the file that todo:complete
\* left holds the other item only, at its lineIndex.
C20_Witness ==
  /\ last.op = "todo:list-urgent"
  /\ C20_Indexes(shown.todos) = {0, 1}
  /\ doneSince = {0}
  /\ startsWith(preLines[1], <<"x", " ">>)
  /\ Len(resp.todos) = 1
  /\ resp.todos[1].lineIndex = 1

\* C21: a shortcut toggle that shows the main window cancels every hide that
\* a blur scheduled before it: no timer that was set before the toggle that
\* last showed the window is still set, and no such timer's callback hides
\* the window.
C21_StaleHidesCancelled ==
  /\ \A t \in win.timers : t >= win.shownAt
  /\ win.hiddenBy # 0 => win.hiddenBy >= win.shownAt

====
